---- MODULE Spec2Model ----
(***************************************************************************)
(* Model of the analytics functions of app2.py (load_stock_data,           *)
(* calculate_metrics, calculate_volatility, calculate_cumulative_returns,  *)
(* calculate_monthly_performance) over small pandas-like data frames.      *)
(*                                                                         *)
(* A DataFrame is [cols |-> set of column names, rows |-> sequence of      *)
(* rows]; a row is a function from column name to value.  The row index    *)
(* labels of pandas are not modelled.  Floating point values are modelled  *)
(* as exact rationals extended with NaN, +inf and -inf (IEEE results of    *)
(* x/0 and 0/0); rounding error and the sign of zero are not modelled.     *)
(* A raised exception is the value Raise(name).                            *)
(***************************************************************************)
EXTENDS Integers, Sequences, FiniteSets, TLC

\* ------------------------------------------------------------- bounds
MaxRows == 3
DaysPerMonth == 2

Symbols == {"A", "B"}
Absent == "Z"
Closes == {0, 1, 2}
Volumes == {5}
Dates == {1, 2, 3}

\* lexical order of the symbol strings
Rank(s) == CASE s = "A" -> 1 [] s = "B" -> 2 [] OTHER -> 26

\* ------------------------------------------------------ float64 values
\* [n, d] with d > 0 is the rational n/d in lowest terms;
\* d = 0: n = 0 is NaN, n = 1 is +inf, n = -1 is -inf.
RECURSIVE GCD(_, _)
GCD(a, b) == IF b = 0 THEN a ELSE GCD(b, a % b)

Abs(x) == IF x < 0 THEN -x ELSE x
Sgn(x) == IF x > 0 THEN 1 ELSE IF x < 0 THEN -1 ELSE 0

NaN == [n |-> 0, d |-> 0]
Inf(s) == [n |-> s, d |-> 0]
Norm(n, d) == LET g == GCD(Abs(n), d) IN [n |-> n \div g, d |-> d \div g]
F(i) == [n |-> i, d |-> 1]

isnan(x) == x.d = 0 /\ x.n = 0
isinf(x) == x.d = 0 /\ x.n # 0
isfinite(x) == x.d > 0

Add(a, b) ==
    IF isnan(a) \/ isnan(b) THEN NaN
    ELSE IF isinf(a) /\ isinf(b) THEN (IF a.n = b.n THEN a ELSE NaN)
    ELSE IF isinf(a) THEN a
    ELSE IF isinf(b) THEN b
    ELSE Norm(a.n * b.d + b.n * a.d, a.d * b.d)

Neg(a) == [n |-> -a.n, d |-> a.d]
Sub(a, b) == Add(a, Neg(b))

Mul(a, b) ==
    IF isnan(a) \/ isnan(b) THEN NaN
    ELSE IF isinf(a) \/ isinf(b)
         THEN (IF a.n = 0 \/ b.n = 0 THEN NaN ELSE Inf(Sgn(a.n) * Sgn(b.n)))
    ELSE Norm(a.n * b.n, a.d * b.d)

Div(a, b) ==
    IF isnan(a) \/ isnan(b) THEN NaN
    ELSE IF isinf(a) THEN (IF isinf(b) THEN NaN
                           ELSE Inf(a.n * (IF b.n < 0 THEN -1 ELSE 1)))
    ELSE IF isinf(b) THEN F(0)
    ELSE IF b.n = 0 THEN (IF a.n = 0 THEN NaN ELSE Inf(Sgn(a.n)))
    ELSE Norm(a.n * b.d * Sgn(b.n), a.d * Abs(b.n))

\* a < b on non-NaN values
Less(a, b) ==
    IF isinf(a) THEN a.n = -1 /\ b # a
    ELSE IF isinf(b) THEN b.n = 1
    ELSE a.n * b.d < b.n * a.d

\* ---------------------------------------------------------- DataFrames
Raise(e) == [raise |-> e]
raised(x) == "raise" \in DOMAIN x

Frame(cols, rows) == [cols |-> cols, rows |-> rows]

\* pd.DataFrame()
EmptyFrame == Frame({}, <<>>)

\* pd.DataFrame(list of dicts): the columns are the keys of the dicts
DataFrame(records) ==
    Frame(IF records = <<>> THEN {} ELSE DOMAIN records[1], records)

Range(s) == {s[i] : i \in DOMAIN s}

\* the index pairs of a sequence
Pairs(s) == (1..Len(s)) \X (1..Len(s))

\* stable sort: before is the set of index pairs <<i, j>> with s[i] ordered
\* ahead of s[j]; ties keep their order (the sort is stable at these sizes)
StableSort(s, before) ==
    LET n == Len(s)
        pos == [i \in 1..n |-> 1 + Cardinality({j \in 1..n :
                        \/ <<j, i>> \in before
                        \/ (<<i, j>> \notin before /\ j < i)})]
    IN [p \in 1..n |-> s[CHOOSE i \in 1..n : pos[i] = p]]

\* the distinct members of a finite set as a sequence in Before order
RECURSIVE SetToSortedSeq(_, _)
SetToSortedSeq(S, rk) ==
    IF S = {} THEN <<>>
    ELSE LET m == CHOOSE x \in S : \A y \in S : rk[x] <= rk[y]
         IN <<m>> \o SetToSortedSeq(S \ {m}, rk)

BaseCols == {"Date", "Close", "Volume", "Symbol"}

\* variant: the per-group sort by date left out
unsorted_Date(rows) == rows

\* df.sort_values("Date"): ascending
sort_values_Date(rows) ==
    StableSort(rows, {p \in Pairs(rows) : rows[p[1]]["Date"] < rows[p[2]]["Date"]})

\* variant: sort_values("Symbol") alone, dates left in table order
sort_values_Symbol(rows) ==
    StableSort(rows, {p \in Pairs(rows) :
        Rank(rows[p[1]]["Symbol"]) < Rank(rows[p[2]]["Symbol"])})

\* df.sort_values(["Symbol", "Date"]): ascending, lexicographic
sort_values_Symbol_Date(rows) ==
    StableSort(rows, {p \in Pairs(rows) :
        LET x == rows[p[1]]
            y == rows[p[2]]
        IN \/ Rank(x["Symbol"]) < Rank(y["Symbol"])
           \/ (x["Symbol"] = y["Symbol"] /\ x["Date"] < y["Date"])})

\* the float a cell compares as (a symbolic square root by its radicand)
key(v) == IF "sqrt" \in DOMAIN v THEN v.sqrt ELSE v

\* variant: ascending=False left out
sort_values_asc(frame, col) ==
    IF col \notin frame.cols THEN Raise("KeyError")
    ELSE Frame(frame.cols, StableSort(frame.rows, {p \in Pairs(frame.rows) :
            LET x == key(frame.rows[p[1]][col])
                y == key(frame.rows[p[2]][col])
            IN ~isnan(x) /\ (isnan(y) \/ Less(x, y))}))

\* frame.sort_values(col, ascending=False) on a float column: NaN goes last
sort_values_desc(frame, col) ==
    IF col \notin frame.cols THEN Raise("KeyError")
    ELSE Frame(frame.cols, StableSort(frame.rows, {p \in Pairs(frame.rows) :
            LET x == key(frame.rows[p[1]][col])
                y == key(frame.rows[p[2]][col])
            IN ~isnan(x) /\ (isnan(y) \/ Less(y, x))}))

\* df.groupby("Symbol"): the groups in sorted key order, rows in table order
groupby_Symbol(rows) ==
    LET keys == SetToSortedSeq({r["Symbol"] : r \in Range(rows)},
                               [s \in Symbols \cup {Absent} |-> Rank(s)])
    IN [i \in 1..Len(keys) |->
          [key |-> keys[i],
           rows |-> SelectSeq(rows, LAMBDA r : r["Symbol"] = keys[i])]]

RECURSIVE Sum(_)
Sum(xs) == IF xs = <<>> THEN F(0) ELSE Add(xs[1], Sum(Tail(xs)))

\* Series.mean() (skipna): NaN on an empty series
mean(xs) ==
    LET v == SelectSeq(xs, LAMBDA x : ~isnan(x))
    IN Div(Sum(v), F(Len(v)))

CloseF(rows) == [i \in 1..Len(rows) |-> F(rows[i]["Close"])]

\* ------------------------------------------------------- load_stock_data
\* files: the directory listing, a sequence of [name, rows] (rows without
\* the Symbol column); exists: os.path.exists(csv_dir)
load_stock_data(exists, files) ==
    IF ~exists THEN EmptyFrame
    ELSE LET dfs == [i \in 1..Len(files) |->
                      [j \in 1..Len(files[i].rows) |->
                         files[i].rows[j] @@ ("Symbol" :> files[i].name)]]
             concat[i \in 0..Len(dfs)] ==
                 IF i = 0 THEN <<>> ELSE concat[i - 1] \o dfs[i]
         IN IF dfs = <<>> THEN EmptyFrame
            ELSE Frame(BaseCols, concat[Len(dfs)])

\* ----------------------------------------------------- calculate_metrics
calculate_metrics(tbl) ==
    IF "Symbol" \notin tbl.cols THEN Raise("KeyError")
    ELSE LET groups == groupby_Symbol(tbl.rows)
             result == [i \in 1..Len(groups) |->
                 LET data == sort_values_Date(groups[i].rows)
                     start == F(data[1]["Close"])
                     end == F(data[Len(data)]["Close"])
                     yearly_return == Mul(Div(Sub(end, start), start), F(100))
                 IN ("Symbol" :> groups[i].key)
                    @@ ("Return (%)" :> yearly_return)
                    @@ ("Avg Price" :> mean(CloseF(data)))
                    @@ ("Avg Volume" :> mean([k \in 1..Len(data) |->
                                                F(data[k]["Volume"])]))]
         IN sort_values_desc(DataFrame(result), "Return (%)")

\* -------------------------------------------------- calculate_volatility
\* Series.pct_change(): x[i] / x[i-1] - 1, NaN at the first position
pct_change(xs) ==
    [i \in 1..Len(xs) |->
        IF i = 1 THEN NaN ELSE Sub(Div(xs[i], xs[i - 1]), F(1))]

\* the square root is kept symbolic: Sqrt(x) stands for the float sqrt(x)
Sqrt(x) == [sqrt |-> x]

\* variant: numpy's std over the raw series, where a NaN is not skipped
std_no_skipna(xs) ==
    LET count == Len(xs)
        avg == Div(Sum(xs), F(count))
        sqr == Sum([i \in 1..count |->
                      Mul(Sub(avg, xs[i]), Sub(avg, xs[i]))])
    IN IF count <= 1 THEN Sqrt(NaN) ELSE Sqrt(Div(sqr, F(count - 1)))

\* Series.std(): skipna, ddof = 1; NaN with fewer than 2 valid values
std(xs) ==
    LET v == SelectSeq(xs, LAMBDA x : ~isnan(x))
        count == Len(v)
        avg == Div(Sum(v), F(count))
        sqr == Sum([i \in 1..count |->
                      Mul(Sub(avg, v[i]), Sub(avg, v[i]))])
    IN IF count <= 1 THEN Sqrt(NaN) ELSE Sqrt(Div(sqr, F(count - 1)))

calculate_volatility(tbl) ==
    IF "Symbol" \notin tbl.cols THEN Raise("KeyError")
    ELSE LET groups == groupby_Symbol(tbl.rows)
             vol == [i \in 1..Len(groups) |->
                 LET data == sort_values_Date(groups[i].rows)
                     Daily_Return == pct_change(CloseF(data))
                 IN ("Symbol" :> groups[i].key)
                    @@ ("Volatility" :> std(Daily_Return))]
         IN sort_values_desc(DataFrame(vol), "Volatility")

\* ------------------------------------------ calculate_cumulative_returns
\* the position of the previous row of the same group, 0 when there is none
PrevInGroup(rows, i) ==
    LET same == {j \in 1..(i - 1) : rows[j]["Symbol"] = rows[i]["Symbol"]}
    IN IF same = {} THEN 0 ELSE CHOOSE j \in same : \A k \in same : k <= j

\* variant: subset["Close"].pct_change() without the groupby
pct_change_ungrouped(rows) ==
    [i \in 1..Len(rows) |->
        IF i = 1 THEN NaN
        ELSE Sub(Div(F(rows[i]["Close"]), F(rows[i - 1]["Close"])), F(1))]

\* subset.groupby("Symbol")["Close"].pct_change()
groupby_pct_change(rows) ==
    [i \in 1..Len(rows) |->
        LET p == PrevInGroup(rows, i)
        IN IF p = 0 THEN NaN
           ELSE Sub(Div(F(rows[i]["Close"]), F(rows[p]["Close"])), F(1))]

\* groupby("Symbol")[col].transform(lambda x: (1 + x).cumprod()):
\* Series.cumprod() skips a NaN input, which stays NaN in the result, and
\* multiplies the others on, within each group
groupby_transform_cumprod(rows, col) ==
    LET x == [i \in 1..Len(rows) |-> Add(F(1), rows[i][col])]
        acc[i \in 1..Len(rows)] ==
            LET p == PrevInGroup(rows, i)
            IN Mul(IF p = 0 THEN F(1) ELSE acc[p],
                   IF isnan(x[i]) THEN F(1) ELSE x[i])
    IN [i \in 1..Len(rows) |-> IF isnan(x[i]) THEN NaN ELSE acc[i]]

calculate_cumulative_returns(tbl, top_symbols) ==
    IF "Symbol" \notin tbl.cols THEN Raise("KeyError")
    ELSE LET subset == SelectSeq(tbl.rows, LAMBDA r : r["Symbol"] \in top_symbols)
             sorted == sort_values_Symbol_Date(subset)
             dr == groupby_pct_change(sorted)
             withDR == [i \in 1..Len(sorted) |->
                          ("Daily Return" :> dr[i]) @@ sorted[i]]
             cr == groupby_transform_cumprod(withDR, "Daily Return")
         IN Frame(tbl.cols \cup {"Daily Return", "Cumulative Return"},
                  [i \in 1..Len(sorted) |->
                      ("Cumulative Return" :> cr[i]) @@ withDR[i]])

\* ----------------------------------------- calculate_monthly_performance
\* variant: to_period('D'), every day its own period
to_period_D(date) == date

\* df['Date'].dt.to_period('M'): the calendar month a date falls in
to_period_M(date) == (date - 1) \div DaysPerMonth + 1

\* line 62: the Month column is assigned on the caller's frame
assign_Month(tbl) ==
    Frame(tbl.cols \cup {"Month"},
          [i \in 1..Len(tbl.rows) |->
              ("Month" :> to_period_M(tbl.rows[i]["Date"])) @@ tbl.rows[i]])

\* df.groupby(['Month', 'Symbol']): groups in sorted key order
groupby_Month_Symbol(rows) ==
    LET K == {<<r["Month"], r["Symbol"]>> : r \in Range(rows)}
        keys == SetToSortedSeq(K, [k \in K |-> k[1] * 100 + Rank(k[2])])
    IN [i \in 1..Len(keys) |->
          [key |-> keys[i],
           rows |-> SelectSeq(rows, LAMBDA r :
                        <<r["Month"], r["Symbol"]>> = keys[i])]]

calculate_monthly_performance(tbl) ==
    IF "Date" \notin tbl.cols THEN Raise("KeyError")
    ELSE LET groups == groupby_Month_Symbol(assign_Month(tbl).rows)
             monthly_data == [i \in 1..Len(groups) |->
                 LET group == sort_values_Date(groups[i].rows)
                     first == F(group[1]["Close"])
                     last == F(group[Len(group)]["Close"])
                     m_return == Mul(Div(Sub(last, first), first), F(100))
                 IN [Month |-> groups[i].key[1],
                     Symbol |-> groups[i].key[2],
                     Return |-> m_return]]
         IN DataFrame(monthly_data)

\* the caller's frame after calculate_monthly_performance(df)
monthly_side_effect(tbl) ==
    IF "Date" \notin tbl.cols THEN tbl ELSE assign_Month(tbl)

\* ------------------------------------------------------------ inputs
Row(s, d, c, v) == [Symbol |-> s, Date |-> d, Close |-> c, Volume |-> v]
RowSet == {Row(s, d, c, v) : s \in Symbols, d \in Dates, c \in Closes, v \in Volumes}

\* one observation per (symbol, date); any row order
RowSeqs ==
    UNION {{rs \in [1..n -> RowSet] :
               \A i, j \in 1..n :
                   (i # j) => (rs[i].Symbol # rs[j].Symbol \/ rs[i].Date # rs[j].Date)}
           : n \in 0..MaxRows}

\* the directory that holds the rows rs, one csv file per symbol
Directory(rs) ==
    LET gs == groupby_Symbol(rs)
    IN [i \in 1..Len(gs) |->
          [name |-> gs[i].key,
           rows |-> [j \in 1..Len(gs[i].rows) |->
                       [Date |-> gs[i].rows[j].Date,
                        Close |-> gs[i].rows[j].Close,
                        Volume |-> gs[i].rows[j].Volume]]]]

\* the tables a caller can hold: rs as loaded from its directory (or from
\* a missing directory), and rs in any row order
InputFrames(rs) ==
    {load_stock_data(TRUE, Directory(rs)),
     load_stock_data(FALSE, Directory(rs)),
     Frame(BaseCols, rs)}

Selections == SUBSET (Symbols \cup {Absent})

\* -------------------------------------------------------- state machine
VARIABLES
    df,     \* the caller's table (module-level df, line 74)
    orig,   \* the table as ingestion produced it
    call,   \* the last call, [fn, top_symbols]; fn = "none" before any call
    out     \* what the last call returned or raised

vars == <<df, orig, call, out>>

Call(fn, sel) == [fn |-> fn, top_symbols |-> sel]

Init ==
    /\ \E rs \in RowSeqs : df \in InputFrames(rs)
    /\ orig = df
    /\ call = Call("none", {})
    /\ out = EmptyFrame

Metrics ==
    /\ call' = Call("calculate_metrics", {})
    /\ out' = calculate_metrics(df)
    /\ UNCHANGED <<df, orig>>

Volatility ==
    /\ call' = Call("calculate_volatility", {})
    /\ out' = calculate_volatility(df)
    /\ UNCHANGED <<df, orig>>

CumulativeReturns ==
    \E sel \in Selections :
        /\ call' = Call("calculate_cumulative_returns", sel)
        /\ out' = calculate_cumulative_returns(df, sel)
        /\ UNCHANGED <<df, orig>>

MonthlyPerformance ==
    /\ call' = Call("calculate_monthly_performance", {})
    /\ out' = calculate_monthly_performance(df)
    /\ df' = monthly_side_effect(df)
    /\ UNCHANGED orig

Next == Metrics \/ Volatility \/ CumulativeReturns \/ MonthlyPerformance

\* any sequence of calculator calls on the loaded table
Spec == Init /\ [][Next]_vars

\* one calculator applied once to every input table
FirstCall == call.fn = "none"
ApplyMetrics == FirstCall /\ Metrics
ApplyVolatility == FirstCall /\ Volatility
ApplyCumulativeReturns == FirstCall /\ CumulativeReturns
ApplyMonthlyPerformance == FirstCall /\ MonthlyPerformance

SpecMetrics == Init /\ [][ApplyMetrics]_vars
SpecVolatility == Init /\ [][ApplyVolatility]_vars
SpecCumulative == Init /\ [][ApplyCumulativeReturns]_vars
SpecMonthly == Init /\ [][ApplyMonthlyPerformance]_vars

\* ---------------------------------------------- what the claims refer to
SymbolsIn(tbl) == {r["Symbol"] : r \in Range(tbl.rows)}
DatesOf(tbl, s) == {r["Date"] : r \in {x \in Range(tbl.rows) : x["Symbol"] = s}}
Min(S) == CHOOSE x \in S : \A y \in S : x <= y
Max(S) == CHOOSE x \in S : \A y \in S : y <= x
EarliestDate(tbl, s) == Min(DatesOf(tbl, s))
LatestDate(tbl, s) == Max(DatesOf(tbl, s))
CloseAt(tbl, s, d) ==
    (CHOOSE r \in Range(tbl.rows) : r["Symbol"] = s /\ r["Date"] = d)["Close"]
FirstClose(tbl, s) == CloseAt(tbl, s, EarliestDate(tbl, s))
LastClose(tbl, s) == CloseAt(tbl, s, LatestDate(tbl, s))

\* (last - first) / first * 100 in float arithmetic
ReturnPct(first, last) == Mul(Div(Sub(F(last), F(first)), F(first)), F(100))

RowsFor(frame, s) == {i \in 1..Len(frame.rows) : frame.rows[i]["Symbol"] = s}
Returned(fn) == call.fn = fn /\ ~raised(out)
Obs(s, d, c) == Row(s, d, c, 5)

\* ------------------------------------------------------------- claims
\* C1: for every selected symbol with at least one observation, the row
\* calculate_cumulative_returns returns for the symbol's earliest date has
\* a cumulative return of exactly 1.0 (a number, not NaN).
C1_FirstCumulativeReturnIsOne ==
    Returned("calculate_cumulative_returns") =>
        \A s \in call.top_symbols \cap SymbolsIn(orig) :
            \E i \in RowsFor(out, s) :
                /\ out.rows[i]["Date"] = EarliestDate(orig, s)
                /\ out.rows[i]["Cumulative Return"] = F(1)

\* C2: on a table with zero rows (the column-less frame load_stock_data
\* returns included) every calculator returns an empty result and raises
\* nothing.
C2_EmptyTableGivesEmptyResult ==
    (orig.rows = <<>> /\ call.fn # "none") =>
        (~raised(out) /\ out.rows = <<>>)

\* C3: a symbol whose earliest close is 0 does not crash calculate_metrics,
\* gets the return NaN whatever its last close, and is absent from the
\* output or placed after every symbol with a defined return.
C3_ZeroFirstCloseGivesNaNLast ==
    (call.fn = "calculate_metrics" /\ orig.rows # <<>>) =>
        /\ ~raised(out)
        /\ \A s \in SymbolsIn(orig) : FirstClose(orig, s) = 0 =>
              \A i \in RowsFor(out, s) :
                 /\ isnan(out.rows[i]["Return (%)"])
                 /\ \A j \in 1..Len(out.rows) :
                       isfinite(out.rows[j]["Return (%)"]) => j < i

\* C4: after any sequence of calculator calls the caller's table has the
\* rows, columns and values it had before the first call.
C4_CallerTableUnchanged == df = orig

\* C6: when every symbol has a nonzero first close, the output of
\* calculate_metrics has exactly one row per distinct symbol of the input
\* and each row's return is >= the return of the row after it; a table
\* with rows always has an output; {A: 100->110, B: 100->90} gives [A, B].
C6_Example ==
    LET o == calculate_metrics(Frame(BaseCols,
                 <<Obs("B", 1, 100), Obs("A", 2, 110),
                   Obs("B", 2, 90), Obs("A", 1, 100)>>))
    IN /\ [i \in 1..Len(o.rows) |-> o.rows[i]["Symbol"]] = <<"A", "B">>
       /\ o.rows[1]["Return (%)"] = F(10)
       /\ o.rows[2]["Return (%)"] = F(-10)

C6_MetricsOneRowPerSymbolSortedDesc ==
    /\ C6_Example
    /\ (/\ call.fn = "calculate_metrics"
        /\ \A s \in SymbolsIn(orig) : FirstClose(orig, s) # 0) =>
          /\ orig.rows # <<>> => ~raised(out)
          /\ ~raised(out) =>
               /\ \A s \in SymbolsIn(orig) : Cardinality(RowsFor(out, s)) = 1
               /\ Len(out.rows) = Cardinality(SymbolsIn(orig))
               /\ \A i \in 1..(Len(out.rows) - 1) :
                     /\ isfinite(out.rows[i]["Return (%)"])
                     /\ isfinite(out.rows[i + 1]["Return (%)"])
                     /\ ~Less(out.rows[i]["Return (%)"],
                              out.rows[i + 1]["Return (%)"])

\* two symbols with nonzero first closes, the one listed second in symbol
\* order having the larger return
C6_Witness ==
    /\ Returned("calculate_metrics")
    /\ SymbolsIn(orig) = {"A", "B"}
    /\ FirstClose(orig, "A") # 0 /\ FirstClose(orig, "B") # 0
    /\ Len(out.rows) = 2
    /\ out.rows[1]["Symbol"] = "B"
    /\ Less(out.rows[2]["Return (%)"], out.rows[1]["Return (%)"])

\* C7: for every symbol with at least 2 observations and a nonzero first
\* close, in every row order of the table, the return calculate_metrics
\* reports is (close at latest date - close at earliest date) / close at
\* earliest date * 100.
C7_ReturnFromEarliestAndLatestClose ==
    call.fn = "calculate_metrics" =>
        \A s \in SymbolsIn(orig) :
            (Cardinality(DatesOf(orig, s)) >= 2 /\ FirstClose(orig, s) # 0) =>
                /\ ~raised(out)
                /\ \E i \in RowsFor(out, s) :
                      out.rows[i]["Return (%)"] =
                          ReturnPct(FirstClose(orig, s), LastClose(orig, s))

\* a symbol whose rows stand in the table latest date first, with a
\* nonzero return
C7_Witness ==
    /\ Returned("calculate_metrics")
    /\ \E s \in SymbolsIn(orig) :
          /\ Cardinality(DatesOf(orig, s)) >= 2
          /\ FirstClose(orig, s) # 0
          /\ FirstClose(orig, s) # LastClose(orig, s)
          /\ orig.rows[Min(RowsFor(orig, s))]["Date"] = LatestDate(orig, s)
          /\ \E i \in RowsFor(out, s) :
                out.rows[i]["Return (%)"] =
                    ReturnPct(FirstClose(orig, s), LastClose(orig, s))

\* C5 as stated: a symbol whose close is the same on all of its dates has
\* volatility exactly 0, whatever the number of its observations.
C5_ConstantCloseZeroVolatilityAnyCount ==
    call.fn = "calculate_volatility" =>
        \A s \in SymbolsIn(orig) :
            (\A d \in DatesOf(orig, s) : CloseAt(orig, s, d) = FirstClose(orig, s)) =>
                /\ ~raised(out)
                /\ \E i \in RowsFor(out, s) :
                      out.rows[i]["Volatility"] = Sqrt(F(0))

\* C5 amended: a symbol with at least 3 observations whose close is the
\* same nonzero value on all of its dates has volatility exactly 0; with
\* fewer than 3 observations, or a constant close of 0, it is NaN.
C5_ConstantCloseZeroVolatility ==
    call.fn = "calculate_volatility" =>
        \A s \in SymbolsIn(orig) :
            (\A d \in DatesOf(orig, s) : CloseAt(orig, s, d) = FirstClose(orig, s)) =>
                /\ ~raised(out)
                /\ Cardinality(RowsFor(out, s)) = 1
                /\ \A i \in RowsFor(out, s) :
                      IF Cardinality(DatesOf(orig, s)) >= 3 /\ FirstClose(orig, s) # 0
                      THEN out.rows[i]["Volatility"] = Sqrt(F(0))
                      ELSE out.rows[i]["Volatility"] = Sqrt(NaN)

C5_Witness ==
    /\ Returned("calculate_volatility")
    /\ \E s \in SymbolsIn(orig) :
          /\ Cardinality(DatesOf(orig, s)) >= 3
          /\ FirstClose(orig, s) # 0
          /\ \A d \in DatesOf(orig, s) : CloseAt(orig, s, d) = FirstClose(orig, s)
          /\ \E i \in RowsFor(out, s) : out.rows[i]["Volatility"] = Sqrt(F(0))

\* the calendar month of a date, months of DaysPerMonth days
CalendarMonth(d) ==
    CHOOSE m \in 1..d : (m - 1) * DaysPerMonth < d /\ d <= m * DaysPerMonth
MonthSymbolPairs(tbl) ==
    {<<CalendarMonth(r["Date"]), r["Symbol"]>> : r \in Range(tbl.rows)}
DatesIn(tbl, p) ==
    {d \in DatesOf(tbl, p[2]) : CalendarMonth(d) = p[1]}
RowsForPair(frame, p) ==
    {i \in 1..Len(frame.rows) :
        frame.rows[i]["Month"] = p[1] /\ frame.rows[i]["Symbol"] = p[2]}

\* closes Jan-01: 100, Jan-31: 120, Feb-01: 120, Feb-28: 90
C8_Example ==
    LET o == calculate_monthly_performance(Frame(BaseCols,
                 <<Obs("A", 2 * DaysPerMonth, 90), Obs("A", 1, 100),
                   Obs("A", DaysPerMonth + 1, 120), Obs("A", DaysPerMonth, 120)>>))
    IN o.rows = <<[Month |-> 1, Symbol |-> "A", Return |-> F(20)],
                  [Month |-> 2, Symbol |-> "A", Return |-> F(-25)]>>

C8_OneRowPerPairWithReturn ==
    /\ \A p \in MonthSymbolPairs(orig) :
          /\ Cardinality(RowsForPair(out, p)) = 1
          /\ \A i \in RowsForPair(out, p) :
                out.rows[i]["Return"] =
                    ReturnPct(CloseAt(orig, p[2], Min(DatesIn(orig, p))),
                              CloseAt(orig, p[2], Max(DatesIn(orig, p))))
    /\ Len(out.rows) = Cardinality(MonthSymbolPairs(orig))

\* C8 as stated: one row per (month, symbol) pair with an observation and
\* no other row, each with the return (last - first) / first * 100 of the
\* pair, so that a pair with a single observation has return 0.
C8_MonthlySingleObservationReturnZero ==
    Returned("calculate_monthly_performance") =>
        /\ C8_OneRowPerPairWithReturn
        /\ \A p \in MonthSymbolPairs(orig) :
              Cardinality(DatesIn(orig, p)) = 1 =>
                  \A i \in RowsForPair(out, p) : out.rows[i]["Return"] = F(0)

\* C8 amended: the same rows and the same return formula, taken in float
\* arithmetic; a pair with a single observation has return 0 when its
\* close is nonzero and NaN when its close is 0.  The call returns for
\* every table that has the Date column.
C8_MonthlyOneRowPerPair ==
    /\ C8_Example
    /\ call.fn = "calculate_monthly_performance" =>
          /\ "Date" \in orig.cols => ~raised(out)
          /\ ~raised(out) =>
               /\ C8_OneRowPerPairWithReturn
               /\ \A p \in MonthSymbolPairs(orig) :
                     Cardinality(DatesIn(orig, p)) = 1 =>
                         \A i \in RowsForPair(out, p) :
                             out.rows[i]["Return"] =
                                 IF CloseAt(orig, p[2], Min(DatesIn(orig, p))) = 0
                                 THEN NaN ELSE F(0)

\* one symbol with two observations in one month, given latest first, and
\* a single observation in the next month
C8_Witness ==
    /\ Returned("calculate_monthly_performance")
    /\ \E s \in SymbolsIn(orig) : \E p, q \in MonthSymbolPairs(orig) :
          /\ p[2] = s /\ q[2] = s /\ p[1] < q[1]
          /\ Cardinality(DatesIn(orig, p)) = 2
          /\ Cardinality(DatesIn(orig, q)) = 1
          /\ orig.rows[Min(RowsFor(orig, s))]["Date"] = Max(DatesIn(orig, p))
          /\ \E i \in RowsForPair(out, p) :
                isfinite(out.rows[i]["Return"]) /\ out.rows[i]["Return"] # F(0)
          /\ \E i \in RowsForPair(out, q) : out.rows[i]["Return"] = F(0)

\* C9: on a non-empty table and any selection, calculate_cumulative_returns
\* raises nothing and returns rows only for selected symbols that occur in
\* the table, each symbol's rows in ascending date order; an absent symbol
\* adds no rows and an empty selection gives an empty result.
KeysOf(rows) == {<<rows[i]["Symbol"], rows[i]["Date"]>> : i \in 1..Len(rows)}

C9_CumulativeRowsOfSelectedSymbols ==
    (call.fn = "calculate_cumulative_returns" /\ orig.rows # <<>>) =>
        /\ ~raised(out)
        /\ KeysOf(out.rows) =
              {k \in KeysOf(orig.rows) : k[1] \in call.top_symbols}
        /\ Len(out.rows) = Cardinality(KeysOf(out.rows))
        /\ \A i, j \in 1..Len(out.rows) :
              (i < j /\ out.rows[i]["Symbol"] = out.rows[j]["Symbol"]) =>
                  out.rows[i]["Date"] < out.rows[j]["Date"]
        /\ \A i \in 1..Len(out.rows) :
              out.rows[i]["Close"] =
                  CloseAt(orig, out.rows[i]["Symbol"], out.rows[i]["Date"])
        /\ call.top_symbols \cap SymbolsIn(orig) = {} => out.rows = <<>>

\* a selection of a present and an absent symbol, the present one's rows
\* standing in the table latest date first, next to an unselected symbol
C9_Witness ==
    /\ Returned("calculate_cumulative_returns")
    /\ call.top_symbols = {"B", Absent}
    /\ SymbolsIn(orig) = {"A", "B"}
    /\ Cardinality(DatesOf(orig, "B")) >= 2
    /\ orig.rows[Min(RowsFor(orig, "B"))]["Date"] = LatestDate(orig, "B")
    /\ Len(out.rows) = Cardinality(DatesOf(orig, "B"))

\* C10: for a selected symbol with nonzero closes and each of its dates
\* after the first, the cumulative return is the product of (1 + daily
\* return) over the symbol's dates from the second up to that date, which
\* is the close at that date over the symbol's first close; the daily
\* return uses the symbol's own previous close only.  Closes
\* [100, 110, 99] give 1.10 and 0.99.
RECURSIVE Product(_, _)
Product(D, f) ==
    IF D = {} THEN F(1)
    ELSE LET d == Min(D) IN Mul(f[d], Product(D \ {d}, f))

OutRow(s, d) ==
    out.rows[CHOOSE i \in 1..Len(out.rows) :
                 out.rows[i]["Symbol"] = s /\ out.rows[i]["Date"] = d]

C10_Example ==
    LET o == calculate_cumulative_returns(Frame(BaseCols,
                 <<Obs("A", 3, 99), Obs("B", 2, 7), Obs("A", 1, 100),
                   Obs("A", 2, 110)>>), {"A", "B"})
    IN /\ o.rows[2]["Cumulative Return"] = Norm(110, 100)
       /\ o.rows[3]["Cumulative Return"] = Norm(99, 100)

C10_CumulativeReturnIsRunningProduct ==
    /\ C10_Example
    /\ call.fn = "calculate_cumulative_returns" =>
        \A s \in call.top_symbols \cap SymbolsIn(orig) :
          (\A d \in DatesOf(orig, s) : CloseAt(orig, s, d) # 0) =>
            /\ ~raised(out)
            /\ \A t \in DatesOf(orig, s) \ {EarliestDate(orig, s)} :
                 LET after == {d \in DatesOf(orig, s) :
                                  EarliestDate(orig, s) < d /\ d <= t}
                     prev == Max({d \in DatesOf(orig, s) : d < t})
                     growth == [d \in after |->
                                  Add(F(1), OutRow(s, d)["Daily Return"])]
                 IN /\ \E i \in RowsFor(out, s) : out.rows[i]["Date"] = t
                    /\ OutRow(s, t)["Daily Return"] =
                          Sub(Div(F(CloseAt(orig, s, t)),
                                  F(CloseAt(orig, s, prev))), F(1))
                    /\ OutRow(s, t)["Cumulative Return"] = Product(after, growth)
                    /\ OutRow(s, t)["Cumulative Return"] =
                          Div(F(CloseAt(orig, s, t)), F(FirstClose(orig, s)))

\* two selected symbols interleaved in the table, one of them with a
\* later close that differs from its first
C10_Witness ==
    /\ Returned("calculate_cumulative_returns")
    /\ call.top_symbols = {"A", "B"}
    /\ SymbolsIn(orig) = {"A", "B"}
    /\ orig.rows[1]["Symbol"] = "B"
    /\ \A k \in KeysOf(orig.rows) : CloseAt(orig, k[1], k[2]) # 0
    /\ Cardinality(DatesOf(orig, "B")) >= 2
    /\ OutRow("B", LatestDate(orig, "B"))["Cumulative Return"] \notin {F(1), NaN}
    /\ FirstClose(orig, "B") # LastClose(orig, "A")

====
